---------------------------- MODULE Spec2Model ----------------------------
(***************************************************************************)
(* Aviant (Frigate NVR mobile client): the camera live screens and the     *)
(* stream drivers they own.                                                *)
(*                                                                         *)
(*   CameraLiveScreenWebRTC  (screens/CameraLiveScreen_WEBRTC.tsx)         *)
(*       WebRTC -> MSE -> HLS fallback, live / timeline playback modes     *)
(*   WebRTCConnection        (services/webrtcService.ts)                   *)
(*   MSEStreamService        (services/mseStreamService.ts)                *)
(*   CameraLiveScreenNative  (screens/CameraLiveScreen_MJPEG.tsx)          *)
(*       ll-hls -> rtsp -> mjpeg fallback with an auto-retry budget        *)
(*                                                                         *)
(* JavaScript is single threaded: every handler, timer callback, promise   *)
(* continuation and socket event runs to completion, so each one is one    *)
(* action.  A React state setter called after the component has unmounted  *)
(* is a no-op, object fields and refs keep changing.                       *)
(*                                                                         *)
(* Left out: the state that only the rendering reads and no handler        *)
(* branches on (loading, connectionState, mseCodec, buffering, the events  *)
(* list), and what a closed peer connection or socket still reports.       *)
(***************************************************************************)
EXTENDS Integers, Sequences, FiniteSets, TLC

\* ------------------------------------------------------------------ bounds
\* Objects of each driver class that exist at the same time (live, or
\* disconnected with a promise of theirs still pending).  A dead object's slot
\* is reused; a handler that makes an object waits for a slot.
MaxDrivers == 1
\* The clock stops advancing at MaxNowSeconds.
MaxNowSeconds == 26

\* WebSocket objects of the FrigateWebSocketService that exist at the same time.
MaxSockets == 2
\* Reconnect timers pending whose handle the service has overwritten.
MaxOrphanTimers == 1
\* Consecutive failures the history counts up to.
MaxFailures == 12
\* The track events one peer connection delivers that are followed.
MaxTracks == 2
\* The HTTP client sockets the relay of one MSEStreamService accepts.
MaxClients == 2
\* The binary messages that arrive while HTTP clients are followed.
MaxRelayFragments == 3
\* The binary messages that arrive while only the buffer is followed.
MaxBufferFragments == 52
\* The init segments (ftyp) among the binary messages.
MaxInits == 2
\* The stop() calls a consumer makes on one service.
MaxStops == 2
\* The times one client socket is served the stream.
MaxServes == 2
\* The connect() calls on one WebRTCConnection that start an attempt.
MaxConnects == 2
\* The login() calls on the FrigateApiService.
MaxLogins == 2
\* The cameras and the event ids of the 'events' topic.
MaxCameras == 2
MaxEventIds == 2

Conns == 1..MaxDrivers
Mses == 1..MaxDrivers

\* Date.now() when the screen mounts, and the steps the clock advances by.
\* The clock counts from an origin a whole number of seconds before the mount:
\* the code takes differences of times and floors of times over 1000 only.
StartNow == 4 * 1000
TickSteps == {500, 10000}
\* Timestamps (ms) a caller hands to handleTimeSelect.
Stamps == {1500, 3000}
\* The 'LIVE' of number | 'LIVE'.
LIVE == -1

\* VerticalTimeline's ZOOM_LEVELS (minutes: hours * 60), 1-based, and
\* DEFAULT_ZOOM_INDEX + 1.
ZOOM_LEVELS ==
    << [interval |-> 1, rowHeight |-> 40, minutes |-> 15],
       [interval |-> 2, rowHeight |-> 45, minutes |-> 30],
       [interval |-> 5, rowHeight |-> 50, minutes |-> 60],
       [interval |-> 10, rowHeight |-> 50, minutes |-> 120],
       [interval |-> 30, rowHeight |-> 55, minutes |-> 360],
       [interval |-> 60, rowHeight |-> 60, minutes |-> 720] >>
DEFAULT_ZOOM_INDEX == 3 + 1
\* contentOffset.y of the scroll events (whole pixels, near the top of the list).
ScrollYs == {0, 40, 59, 60, 100}

VARIABLES
    \* ---- CameraLiveScreenWebRTC
    mounted,            \* the component is mounted
    appState,           \* "active" | "background" (background stands for inactive too)
    isH265,             \* what frigateApi.isH265Camera(cameraName) resolves to
    codecCheck,         \* "pending" | "done": the await in initializeStream
    initialTimestamp,   \* route.params.initialTimestamp (0: none)
    initTimer,          \* "none" | "pending" | "fired": setTimeout(..., 1000) of the mount effect
    ui,                 \* the component's useState values
    webrtcConnection,   \* useRef: a Conns index, 0 for null or a dead object
    mseStreamService,   \* useRef: a Mses index, 0 for null or a dead object
    conns,              \* the WebRTCConnection objects
    mses,               \* the MSEStreamService objects
    now,                \* Date.now()
    \* ---- CameraLiveScreenNative
    nMounted,           \* the component is mounted
    native,             \* the component's useState values
    nTimer,             \* the auto-retry effect's setTimeout(..., 2000) is pending
    nFailures,          \* history: handleError calls since the last load, fallback or manual action
    \* ---- VerticalTimeline
    tlNow,              \* useState(Date.now()), refreshed by the 10 s interval
    zoomIndex,          \* useState(DEFAULT_ZOOM_INDEX)
    \* ---- FrigateWebSocketService and the dashboard that uses it
    frigateWebSocket,   \* the singleton: its fields, its sockets, its pending timers
    dashboard,          \* subscribed: the effect is set up; connection: the last onConnectionChange argument
    fFailures,          \* history: failures (closes, throws) since the last onopen
    fTornDown,          \* history: disconnect() was called and no consumer called connect() since
    \* ---- one MSEStreamService followed in detail
    relay,              \* its fields, its socket, its server, the sockets of its HTTP clients
    \* ---- one WebRTCConnection followed in detail
    peer,               \* its fields, the objects its connect() calls made, the last signals
    \* ---- FrigateApiService, the URL selection of login()
    frigateApi,         \* localUrl, remoteUrl, baseUrl, where selectBestUrl() is, what it tested
    \* ---- FrigateWebSocketService, the 'events' topic
    activeDetections    \* Map<camera, Set<eventId>>

wvars == <<mounted, appState, isH265, codecCheck, initialTimestamp, initTimer,
           ui, webrtcConnection, mseStreamService, conns, mses, now>>
nvars == <<nMounted, native, nTimer, nFailures>>
tvars == <<tlNow, zoomIndex>>
\* The variables of the components other than the two screens.
fvars == <<frigateWebSocket, dashboard, fFailures, fTornDown>>
\* One MSEStreamService instance and the HTTP clients of its relay.
rvars == <<relay>>
\* One WebRTCConnection instance under any consumer.
pvars == <<peer>>
\* FrigateApiService: the URLs and the selection under way.
avars == <<frigateApi>>
\* FrigateWebSocketService: the detections it tracks.
dvars == <<activeDetections>>
others == <<tvars, fvars, rvars, pvars, avars, dvars>>
vars == <<wvars, nvars, others>>

\* ------------------------------------------------------ WebRTCConnection
\* st: where connect() is. "free": no such object (never made, or dead);
\* "openWebSocket": awaiting openWebSocket(); "createOffer": awaiting
\* createOffer/setLocalDescription; "offerSent": connect() returned;
\* "failed": connect() threw.
\* ws: this.webSocket: "connecting" | "open" | "null" (null, or an object whose
\* socket has closed: nothing tells them apart).  pc: this.peerConnection:
\* "null" | "open".  streams: the calls of config.onRemoteStream the object
\* has made.
FreeConn == [st |-> "free", ws |-> "null", pc |-> "null", isConnecting |-> FALSE, streams |-> 0]

\* connect(), up to its first await: lines 39-61 and 98.
Connect == [st |-> "openWebSocket", ws |-> "connecting", pc |-> "open", isConnecting |-> TRUE,
            streams |-> 0]

\* disconnect().
Disconnect(c) == [c EXCEPT !.isConnecting = FALSE, !.ws = "null", !.pc = "null"]

\* A socket or a peer connection of the object is connecting or open.
ConnLive(c) == c.ws \in {"connecting", "open"} \/ c.pc = "open"

\* Nothing of the object can run any more: it is garbage.
ConnDead(c) == c.st \in {"offerSent", "failed"} /\ c.ws = "null" /\ c.pc = "null"

\* ------------------------------------------------------ MSEStreamService
\* st: where start() is. "startHttpServer": awaiting startHttpServer();
\* "connectWebSocket": awaiting connectWebSocket(); "ready": start() returned.
\* ws: this.webSocket.  httpServer: this.httpServer is a listening server.
FreeMse == [st |-> "free", ws |-> "null", httpServer |-> FALSE, isRunning |-> FALSE]

\* start(), up to its first await.
Start == [st |-> "startHttpServer", ws |-> "null", httpServer |-> FALSE, isRunning |-> FALSE]

\* stop().
Stop(m) == [m EXCEPT !.isRunning = FALSE, !.ws = "null", !.httpServer = FALSE]

MseLive(m) == m.ws \in {"connecting", "open"} \/ m.httpServer

MseDead(m) == m.st \in {"ready", "failed"} /\ m.ws = "null" /\ ~m.httpServer

\* ---------------------------------------------------------------- world
\* What a handler of the screen reads and writes, as one value, so that the
\* handlers compose as the code calls them.
World == [ui |-> ui, wref |-> webrtcConnection, mref |-> mseStreamService,
          conns |-> conns, mses |-> mses]

\* webrtcConnection.current?.disconnect()
DisconnectCurrent(w) ==
    IF w.wref = 0 THEN w
    ELSE [w EXCEPT !.conns[w.wref] = Disconnect(w.conns[w.wref])]

\* mseStreamService.current?.stop()
StopCurrent(w) ==
    IF w.mref = 0 THEN w
    ELSE [w EXCEPT !.mses[w.mref] = Stop(w.mses[w.mref])]

FreeConnSlots(w) == {i \in Conns : w.conns[i].st = "free" \/ ConnDead(w.conns[i])}
FreeMseSlots(w) == {i \in Mses : w.mses[i].st = "free" \/ MseDead(w.mses[i])}
Lowest(S) == CHOOSE i \in S : \A j \in S : i <= j

\* initializeWebRTC(), up to the await of connection.connect().
initializeWebRTC(w) ==
    LET c == Lowest(FreeConnSlots(w))
    IN [w EXCEPT !.ui.error = "none",
                 !.ui.streamType = "webrtc",
                 !.conns[c] = Connect,
                 !.wref = c]

\* fallbackToMSE(), up to the await of mseService.start().
fallbackToMSE(w) ==
    LET w1 == DisconnectCurrent(w)
        m == Lowest(FreeMseSlots(w1))
    IN [w1 EXCEPT !.ui.streamType = "mse",
                  !.ui.remoteStream = FALSE,
                  !.mses[m] = Start,
                  !.mref = m]

\* fallbackToHLS().
fallbackToHLS(w) ==
    LET w1 == StopCurrent(DisconnectCurrent(w))
    IN [w1 EXCEPT !.ui.streamType = "hls",
                  !.ui.remoteStream = FALSE,
                  !.ui.mseUrl = FALSE,
                  !.ui.hlsUrl = TRUE]

\* The onError callback initializeWebRTC gives the connection, and its catch.
onError(w) == [w EXCEPT !.ui.error = "webrtc"]

\* Dead objects are dropped, and a ref to one reads as null.
Collect(w) ==
    LET cs == [i \in Conns |-> IF ConnDead(w.conns[i]) THEN FreeConn ELSE w.conns[i]]
        ms == [i \in Mses |-> IF MseDead(w.mses[i]) THEN FreeMse ELSE w.mses[i]]
    IN [w EXCEPT !.conns = cs,
                 !.mses = ms,
                 !.wref = IF w.wref # 0 /\ cs[w.wref].st = "free" THEN 0 ELSE w.wref,
                 !.mref = IF w.mref # 0 /\ ms[w.mref].st = "free" THEN 0 ELSE w.mref]

\* The step's result: state setters act only while the component is mounted.
Commit(w) ==
    LET g == Collect(w)
    IN /\ ui' = IF mounted THEN g.ui ELSE ui
       /\ webrtcConnection' = g.wref
       /\ mseStreamService' = g.mref
       /\ conns' = g.conns
       /\ mses' = g.mses

\* ------------------------------------------------ FrigateWebSocketService
FSockets == 1..MaxSockets

\* A WebSocket the service made: state "connecting" | "open", "free" for none
\* or a closed one; onclose: the service's handler is attached.
FreeSocket == [state |-> "free", onclose |-> FALSE]

maxReconnectAttempts == 10

\* The field initialisers.  ws: an FSockets index, 0 for null or a closed
\* socket.  reconnectTimeout: "null", or a handle whose timer is "pending" or
\* has "fired".  orphanTimers: pending timers no field refers to.  delay: the
\* delay of the timer scheduled last.
InitService ==
    [ws |-> 0, reconnectTimeout |-> "null", reconnectAttempts |-> 0, reconnectDelay |-> 2000,
     sockets |-> [i \in FSockets |-> FreeSocket], orphanTimers |-> 0, delay |-> 0]

\* CameraLiveScreenNative's useState initial values.
\* ------------------------------------- MSEStreamService, followed in detail
ClientIds == 1..MaxClients

\* A binary message: <<its number in arrival order, it starts with an ftyp box>>.
NoSegment == <<>>
IsInit(data) == data[2]
\* What serveStream writes first, and what serveStatus and the 404 branch write.
HEADERS == <<0, FALSE>>
RESPONSE == <<0, TRUE>>

maxBufferSize == 50

\* A socket of the relay's server. state: "free" (not accepted yet) |
\* "connected" | "destroyed" (socket.destroy() called, 'close' not yet
\* delivered) | "closed".  requestLine: the first line of requestData;
\* complete: requestData includes the blank line.  log: what was written.
\* serves: history, the serveStream calls for the socket.
FreeClient ==
    [state |-> "free", requestLine |-> "none", complete |-> FALSE, log |-> <<>>, serves |-> 0]

\* The service after its constructor.  st: where start() is.  webSocket,
\* httpServer: the fields are set.  sock: the WebSocket object ("closing":
\* close() was called and its close event is still to come; inflight:
\* messages sent before that may still be delivered).  server: the TcpSocket
\* server ("binding": listen() is pending).  resolved, timeout: the flag and
\* the 10 s timer of connectWebSocket().  arrived, inits, stops, readys:
\* history (binary messages, init segments, stop() calls, onReady calls).
InitRelay ==
    [st |-> "new", webSocket |-> FALSE, sock |-> "none", inflight |-> FALSE,
     resolved |-> FALSE, timeout |-> FALSE,
     httpServer |-> FALSE, server |-> "none", isRunning |-> FALSE,
     initSegment |-> NoSegment, mediaBuffer |-> <<>>, clients |-> {},
     sockets |-> [c \in ClientIds |-> FreeClient],
     arrived |-> 0, inits |-> 0, stops |-> 0, readys |-> 0]

\* -------------------------------------- WebRTCConnection, followed in detail
\* The k-th connect() call that starts an attempt makes peer connection k and
\* socket k.
Attempts == 1..MaxConnects

\* The text of an 'error' message, as its words.
ErrorTexts ==
    {<<"webrtc", "codecs", "not", "matched">>,
     <<"H265", "unsupported">>,
     <<"stream", "not", "found">>,
     <<"codecs", "matched", "not">>,
     <<"h265">>,
     <<>>}

\* The connection after its constructor.  isConnecting, peerConnection,
\* webSocket: the fields (0: null, else the object's number).  call[k]: where
\* the k-th connect() is ("none" | "openWebSocket" | "createOffer" |
\* "returned" | "thrown").  pc[k]: "none" | "new" | "connected" | "failed"
\* (its connectionState, the object open) | "closed".  sock[k]: "none" |
\* "connecting" | "open" | "closed".  timer[k]: the 10 s timer of
\* openWebSocket() is pending.  offered: the sockets an offer was sent on.
\* remote: the peer connections that have a remote description.
\* cause, text, emitted: history, the last event, the text of an 'error'
\* message, and the callbacks of config that event called, in order.
InitPeer ==
    [isConnecting |-> FALSE, peerConnection |-> 0, webSocket |-> 0,
     call |-> [k \in Attempts |-> "none"],
     pc |-> [k \in Attempts |-> "none"],
     sock |-> [k \in Attempts |-> "none"],
     timer |-> [k \in Attempts |-> FALSE],
     offered |-> {}, remote |-> {},
     cause |-> "none", text |-> <<>>, emitted |-> <<>>]

\* ------------------------------------------------------ FrigateApiService
\* A URL as its parts; <<>> is the empty string.
LocalArgs == {<<>>, <<"local">>, <<"local", "/">>, <<"lan">>}
RemoteArgs == {<<>>, <<"remote">>, <<"remote", "/">>, <<"vpn">>}

\* The service as constructed.  pos: where selectBestUrl() is ("idle" |
\* "testLocal" | "testRemote"), or "post": login() awaits POST /api/login.
\* jwtToken: a token is held.  both, tested, localReachable,
\* remoteReachable, outcome, logins: history of the selection under way or
\* last made, and the login() calls.
InitApi ==
    [localUrl |-> <<>>, remoteUrl |-> <<>>, baseUrl |-> <<>>, pos |-> "idle",
     both |-> FALSE, tested |-> <<>>,
     localReachable |-> "untested", remoteReachable |-> "untested",
     outcome |-> "none", logins |-> 0, jwtToken |-> FALSE]

\* ------------------------------ FrigateWebSocketService.activeDetections
Cameras == 1..MaxCameras
EventIds == 1..MaxEventIds

EventTypes == {"new", "update", "end"}

\* No 'events' message handled yet.
NoEvent ==
    [camera |-> 0, id |-> 0, type |-> "none",
     active |-> FALSE, stationary |-> FALSE, ended |-> FALSE]

\* has: the keys of the map; sets: the set of each key; last: the 'events'
\* message handled last.
InitDetections == [has |-> {}, sets |-> [c \in Cameras |-> {}], last |-> NoEvent]

InitNative == [streamType |-> "ll-hls", error |-> "none", retryCount |-> 0,
               playbackMode |-> "live", selectedTime |-> LIVE]

InitUi == [streamType |-> "webrtc", error |-> "none", remoteStream |-> FALSE,
           hlsUrl |-> FALSE, mseUrl |-> FALSE,
           playbackMode |-> "live", selectedTime |-> LIVE,
           recordingUrl |-> <<>>, recordingReady |-> FALSE,
           recordingEndTime |-> 0]

Init ==
    /\ mounted = TRUE
    /\ appState = "active"
    /\ isH265 \in BOOLEAN
    /\ codecCheck = "pending"
    /\ initialTimestamp \in {0} \cup Stamps
    /\ initTimer = IF initialTimestamp # 0 THEN "pending" ELSE "none"
    /\ ui = InitUi
    /\ webrtcConnection = 0
    /\ mseStreamService = 0
    /\ conns = [i \in Conns |-> FreeConn]
    /\ mses = [i \in Mses |-> FreeMse]
    /\ now = StartNow
    /\ nMounted = TRUE
    /\ native = InitNative
    /\ nTimer = FALSE
    /\ nFailures = 0
    /\ tlNow = StartNow
    /\ zoomIndex = DEFAULT_ZOOM_INDEX
    /\ frigateWebSocket = InitService
    /\ dashboard = [subscribed |-> FALSE, connection |-> "none"]
    /\ fFailures = 0
    /\ fTornDown = FALSE
    /\ relay = InitRelay
    /\ peer = InitPeer
    /\ frigateApi = InitApi
    /\ activeDetections = InitDetections

Session == <<mounted, appState, isH265, codecCheck, initialTimestamp, initTimer, now, nvars, others>>

\* ------------------------------------------------- screen: live transports
\* initializeStream(): frigateApi.isH265Camera resolves.
CodecCheckDone ==
    /\ codecCheck = "pending"
    /\ codecCheck' = "done"
    /\ IF isH265
       THEN FreeMseSlots(World) # {} /\ Commit(fallbackToMSE(World))
       ELSE FreeConnSlots(World) # {} /\ Commit(initializeWebRTC(World))
    /\ UNCHANGED <<mounted, appState, isH265, initialTimestamp, initTimer, now, nvars, others>>

\* AppState listener, 'background' or 'inactive'.
AppBackground ==
    /\ mounted /\ appState = "active"
    /\ appState' = "background"
    /\ Commit(StopCurrent(DisconnectCurrent(World)))
    /\ UNCHANGED <<mounted, isH265, codecCheck, initialTimestamp, initTimer, now, nvars, others>>

\* AppState listener, 'active'.
AppActive ==
    /\ mounted /\ appState = "background"
    /\ appState' = "active"
    /\ IF ui.playbackMode = "live"
       THEN FreeConnSlots(World) # {} /\ Commit(initializeWebRTC(World))
       ELSE Commit(World)
    /\ UNCHANGED <<mounted, isH265, codecCheck, initialTimestamp, initTimer, now, nvars, others>>

\* handleRetry(): the refresh buttons, rendered while error is set.
handleRetry(w) == initializeWebRTC(DisconnectCurrent(w))

HandleRetry ==
    /\ mounted /\ appState = "active" /\ ui.error # "none"
    /\ FreeConnSlots(DisconnectCurrent(World)) # {}
    /\ Commit(handleRetry(World))
    /\ UNCHANGED Session

\* The mount effect's cleanup.
Unmount ==
    /\ mounted
    /\ mounted' = FALSE
    /\ Commit(StopCurrent(DisconnectCurrent(World)))
    /\ UNCHANGED <<appState, isH265, codecCheck, initialTimestamp, initTimer, now, nvars, others>>

\* ------------------------------------------- WebRTCConnection: its events
SetConn(w, i, c) == [w EXCEPT !.conns[i] = c]

\* connect()'s catch, and initializeWebRTC's catch of what it rethrows.
ConnectThrows(w, i) ==
    onError(onError(SetConn(w, i, [w.conns[i] EXCEPT !.isConnecting = FALSE, !.st = "failed"])))

\* The socket opens: openWebSocket() resolves if it is still pending.
WsOpened(i) ==
    /\ conns[i].ws = "connecting"
    /\ conns[i].st \in {"openWebSocket", "failed"}
    /\ Commit(SetConn(World, i,
            [conns[i] EXCEPT !.ws = "open",
                             !.st = IF @ = "openWebSocket" THEN "createOffer" ELSE @]))
    /\ UNCHANGED Session

\* openWebSocket() rejects: the socket's onerror, or the 10 s timer finding
\* the socket not open (connecting still, or this.webSocket null after disconnect()).
WsOpenFailed(i) ==
    /\ conns[i].st = "openWebSocket"
    /\ \E after \in IF conns[i].ws = "connecting" THEN {"null", "connecting"} ELSE {conns[i].ws} :
          Commit(ConnectThrows(SetConn(World, i, [conns[i] EXCEPT !.ws = after]), i))
    /\ UNCHANGED Session

\* createOffer/setLocalDescription settle. this.peerConnection is null after a
\* disconnect(): the call throws.
OfferCreated(i) ==
    /\ conns[i].st = "createOffer"
    /\ \E ok \in (IF conns[i].pc = "open" THEN BOOLEAN ELSE {FALSE}) :
          IF ok
          THEN Commit(SetConn(World, i, [conns[i] EXCEPT !.st = "offerSent"]))
          ELSE Commit(ConnectThrows(World, i))
    /\ UNCHANGED Session

\* The server answers an offer over the open socket.
Answering(i) == conns[i].st = "offerSent" /\ conns[i].ws = "open"

\* 'webrtc/answer': handleAnswer().
Answer(i) ==
    /\ Answering(i) /\ conns[i].isConnecting
    /\ \E ok \in BOOLEAN :
          IF ok /\ conns[i].pc = "open"
          THEN Commit(SetConn(World, i, [conns[i] EXCEPT !.isConnecting = FALSE]))
          ELSE Commit(onError(World))
    /\ UNCHANGED Session

\* A variant of handleErrorMessage without the codec branch: every 'error'
\* message goes to onError.  C4 must tell it from the code's.
handleErrorMessage_NoCodecBranch(w, codec) == onError(w)

\* handleWebSocketMessage(), case 'error'.
handleErrorMessage(w, codec) == IF codec THEN fallbackToMSE(w) ELSE onError(w)

\* An 'error' message; codec: the text has 'codecs not matched' or 'H265'.
WsErrorMessage(i) ==
    /\ Answering(i)
    /\ \E codec \in BOOLEAN :
          /\ codec => FreeMseSlots(DisconnectCurrent(World)) # {}
          /\ Commit(handleErrorMessage(World, codec))
    /\ UNCHANGED Session

\* The socket closes or fails after openWebSocket() settled: logged only.
WsDropped(i) ==
    /\ conns[i].ws \in {"connecting", "open"}
    /\ conns[i].st \in {"createOffer", "offerSent", "failed"}
    /\ Commit(SetConn(World, i, [conns[i] EXCEPT !.ws = "null"]))
    /\ UNCHANGED Session

\* The peer connection has a remote description.
Negotiated(i) == conns[i].st = "offerSent" /\ conns[i].pc = "open" /\ ~conns[i].isConnecting

\* 'track' with a stream: onRemoteStream.
Track(i) ==
    /\ Negotiated(i)
    /\ conns[i].streams < MaxTracks
    /\ Commit([World EXCEPT !.ui.remoteStream = TRUE, !.conns[i].streams = @ + 1])
    /\ UNCHANGED Session

PcStates == {"connected", "failed"}

\* 'connectionstatechange' ("failed" stands for disconnected and closed too).
connectionstatechange(w, i, s) ==
    CASE s = "connected" -> SetConn(w, i, [w.conns[i] EXCEPT !.isConnecting = FALSE])
      [] s = "failed" -> onError(w)
      [] OTHER -> w

PcStateChange(i) ==
    /\ conns[i].st = "offerSent" /\ conns[i].pc = "open"
    /\ \E s \in PcStates :
          /\ s = "connected" => ~conns[i].isConnecting
          /\ Commit(connectionstatechange(World, i, s))
    /\ UNCHANGED Session

\* 'iceconnectionstatechange' to failed.
IceFailed(i) ==
    /\ conns[i].st = "offerSent" /\ conns[i].pc = "open"
    /\ Commit(onError(World))
    /\ UNCHANGED Session

\* ------------------------------------------- MSEStreamService: its events
SetMse(w, i, m) == [w EXCEPT !.mses[i] = m]

\* start()'s catch, and fallbackToMSE's catch of what it rethrows.
StartThrows(w, i) == fallbackToHLS(SetMse(w, i, [Stop(w.mses[i]) EXCEPT !.st = "failed"]))

\* server.listen's callback; start() goes on to connectWebSocket().
ListenOk(i) ==
    /\ mses[i].st = "startHttpServer"
    /\ Commit(SetMse(World, i, [mses[i] EXCEPT !.httpServer = TRUE, !.isRunning = TRUE,
                                               !.ws = "connecting", !.st = "connectWebSocket"]))
    /\ UNCHANGED Session

\* No port of 9999..10010 is free.
ListenFailed(i) ==
    /\ mses[i].st = "startHttpServer"
    /\ Commit(StartThrows(World, i))
    /\ UNCHANGED Session

\* onopen: the 'mse' request is sent.
MseWsOpened(i) ==
    /\ mses[i].st = "connectWebSocket" /\ mses[i].ws = "connecting"
    /\ Commit(SetMse(World, i, [mses[i] EXCEPT !.ws = "open"]))
    /\ UNCHANGED Session

\* The onReady callback fallbackToMSE gives the service.
onReady(w) == [w EXCEPT !.ui.mseUrl = TRUE]

\* The 'mse' message: onCodecInfo, connectWebSocket() resolves, start() returns.
MseCodecInfo(i) ==
    /\ mses[i].st = "connectWebSocket" /\ mses[i].ws = "open"
    /\ Commit(onReady(SetMse(World, i, [mses[i] EXCEPT !.st = "ready"])))
    /\ UNCHANGED Session

\* An 'error' message: the onError callback of fallbackToMSE.
MseErrorMessage(i) ==
    /\ mses[i].st \in {"connectWebSocket", "ready"} /\ mses[i].ws = "open"
    /\ Commit(fallbackToHLS(World))
    /\ UNCHANGED Session

\* connectWebSocket() rejects: onerror, onclose (also after stop()) or the 10 s timer.
MseWsFailed(i) ==
    /\ mses[i].st = "connectWebSocket"
    /\ Commit(StartThrows(World, i))
    /\ UNCHANGED Session

\* The socket closes after start() returned: logged only.
MseWsDropped(i) ==
    /\ mses[i].st = "ready" /\ mses[i].ws = "open"
    /\ Commit(SetMse(World, i, [mses[i] EXCEPT !.ws = "null"]))
    /\ UNCHANGED Session

\* ------------------------------------------------- screen: the live players
showLiveStream == ui.playbackMode = "live" \/ ~ui.recordingReady

MseVideoShown == ui.streamType = "mse" /\ ui.mseUrl /\ showLiveStream
HlsVideoShown == ui.streamType = "hls" /\ ui.hlsUrl /\ showLiveStream

\* onError of the MSE <Video>.
MseVideoError ==
    /\ mounted /\ MseVideoShown
    /\ Commit(fallbackToHLS(World))
    /\ UNCHANGED Session

\* onError of the HLS <Video>.
HlsVideoError ==
    /\ mounted /\ HlsVideoShown
    /\ Commit([World EXCEPT !.ui.error = "hls"])
    /\ UNCHANGED Session

\* ------------------------------------------------- screen: playback modes
NoRecording == <<>>

\* frigateRecordingsApi.getRecordingUrl(cameraName, startTime, endTime): the
\* URL names the segment's start and end second.
getRecordingUrl(startTime, endTime) == <<startTime, endTime>>

\* loadRecordingSegment(startTime, endTime).
loadRecordingSegment(w, startTime, endTime) ==
    [w EXCEPT !.ui.recordingEndTime = endTime,
              !.ui.recordingUrl = getRecordingUrl(startTime, endTime),
              !.ui.recordingReady = FALSE]

\* A variant of handleTimeSelect that closes the live drivers when it switches
\* to a recording.  C14 must tell it from the code's.
handleTimeSelect_TearDown(w, timestamp, t) ==
    IF timestamp = LIVE
    THEN [w EXCEPT !.ui.selectedTime = LIVE,
                   !.ui.playbackMode = "live",
                   !.ui.recordingUrl = NoRecording,
                   !.ui.recordingReady = FALSE]
    ELSE loadRecordingSegment(
             [StopCurrent(DisconnectCurrent(w)) EXCEPT !.ui.selectedTime = timestamp,
                                                       !.ui.playbackMode = "timeline",
                                                       !.ui.recordingReady = FALSE],
             timestamp \div 1000, t \div 1000)

\* handleTimeSelect(timestamp) at Date.now() = t.
handleTimeSelect(w, timestamp, t) ==
    IF timestamp = LIVE
    THEN [w EXCEPT !.ui.selectedTime = LIVE,
                   !.ui.playbackMode = "live",
                   !.ui.recordingUrl = NoRecording,
                   !.ui.recordingReady = FALSE]
    ELSE loadRecordingSegment(
             [w EXCEPT !.ui.selectedTime = timestamp,
                       !.ui.playbackMode = "timeline",
                       !.ui.recordingReady = FALSE],
             timestamp \div 1000, t \div 1000)

\* handleGoLive().
handleGoLive(w, t) == handleTimeSelect(w, LIVE, t)

LiveGapSeconds == 10

\* A variant of handleRecordingEnd that goes live only for a gap below the
\* threshold.  C10 must tell it from the code's.
handleRecordingEnd_Strict(w, t) ==
    LET nowSeconds == t \div 1000
        gap == nowSeconds - w.ui.recordingEndTime
    IN IF gap < LiveGapSeconds
       THEN handleGoLive(w, t)
       ELSE loadRecordingSegment(w, w.ui.recordingEndTime, nowSeconds)

\* handleRecordingEnd() at Date.now() = t.
handleRecordingEnd(w, t) ==
    LET nowSeconds == t \div 1000
        gap == nowSeconds - w.ui.recordingEndTime
    IN IF gap <= LiveGapSeconds
       THEN handleGoLive(w, t)
       ELSE loadRecordingSegment(w, w.ui.recordingEndTime, nowSeconds)

\* The timeline (VerticalTimeline's onTimeSelect) picks LIVE or a timestamp.
TimeSelect ==
    /\ mounted /\ appState = "active"
    /\ \E timestamp \in Stamps \cup {LIVE} : Commit(handleTimeSelect(World, timestamp, now))
    /\ UNCHANGED Session

\* The mount effect's setTimeout(() => handleTimeSelect(initialTimestamp), 1000);
\* the cleanup does not clear it.
InitialTimestampTimer ==
    /\ initTimer = "pending"
    /\ initTimer' = "fired"
    /\ Commit(handleTimeSelect(World, initialTimestamp, now))
    /\ UNCHANGED <<mounted, appState, isH265, codecCheck, initialTimestamp, now, nvars, others>>

RecordingShown == ui.playbackMode = "timeline" /\ ui.recordingUrl # NoRecording

\* onReadyForDisplay of the recording <Video>.
RecordingReady ==
    /\ mounted /\ RecordingShown /\ ~ui.recordingReady
    /\ Commit([World EXCEPT !.ui.recordingReady = TRUE])
    /\ UNCHANGED Session

\* onEnd of the recording <Video>.
RecordingEnd ==
    /\ mounted /\ RecordingShown
    /\ Commit(handleRecordingEnd(World, now))
    /\ UNCHANGED Session

\* onError of the recording <Video>.
RecordingError ==
    /\ mounted /\ RecordingShown
    /\ Commit(handleGoLive([World EXCEPT !.ui.error = "recording"], now))
    /\ UNCHANGED Session

\* Time passes.
Tick ==
    /\ \E d \in TickSteps :
          /\ now + d <= MaxNowSeconds * 1000
          /\ now' = now + d
    /\ UNCHANGED <<mounted, appState, isH265, codecCheck, initialTimestamp, initTimer,
                   ui, webrtcConnection, mseStreamService, conns, mses, nvars, others>>

ConnEvent(i) ==
    \/ WsOpened(i)
    \/ WsOpenFailed(i)
    \/ OfferCreated(i)
    \/ Answer(i)
    \/ WsErrorMessage(i)
    \/ WsDropped(i)
    \/ Track(i)
    \/ PcStateChange(i)
    \/ IceFailed(i)

MseEvent(i) ==
    \/ ListenOk(i)
    \/ ListenFailed(i)
    \/ MseWsOpened(i)
    \/ MseCodecInfo(i)
    \/ MseErrorMessage(i)
    \/ MseWsFailed(i)
    \/ MseWsDropped(i)

PlaybackEvent ==
    \/ TimeSelect
    \/ InitialTimestampTimer
    \/ RecordingReady
    \/ RecordingEnd
    \/ RecordingError

\* The live transports of CameraLiveScreenWebRTC, the clock standing still.
NextLive ==
    \/ CodecCheckDone
    \/ AppBackground
    \/ AppActive
    \/ HandleRetry
    \/ Unmount
    \/ \E i \in Conns : ConnEvent(i)
    \/ \E i \in Mses : MseEvent(i)
    \/ MseVideoError
    \/ HlsVideoError
    \/ TimeSelect
    \/ RecordingReady
    \/ RecordingEnd
    \/ RecordingError

\* The screen opened without an initial timestamp.
InitLive == Init /\ initialTimestamp = 0

SpecLive == InitLive /\ [][NextLive]_vars

\* What the drivers themselves bring about however the server behaves: the
\* 10 s timer of openWebSocket() rejects while the socket is not open,
\* createOffer/setLocalDescription settle, the relay's listen() succeeds or
\* runs out of ports, the 10 s timer of connectWebSocket() rejects while it
\* is unresolved.  Nothing the server or the user does is assumed.
DriverFairness ==
    /\ \A i \in Conns : WF_vars(WsOpenFailed(i)) /\ WF_vars(OfferCreated(i))
    /\ \A i \in Mses : WF_vars(ListenOk(i) \/ ListenFailed(i)) /\ WF_vars(MseWsFailed(i))

SpecLiveFair == InitLive /\ [][NextLive]_vars /\ DriverFairness

\* The playback modes of CameraLiveScreenWebRTC as time passes, the camera's
\* codec check still pending.
NextPlayback ==
    \/ PlaybackEvent
    \/ Tick
    \/ Unmount

SpecPlayback == Init /\ [][NextPlayback]_vars

\* ------------------------------------------------ CameraLiveScreenNative
MaxRetries == 3

\* The stream type the auto-retry effect falls back to.
NextStreamType(t) ==
    CASE t = "ll-hls" -> "rtsp"
      [] t = "rtsp" -> "mjpeg"
      [] OTHER -> t

\* The auto-retry effect, run after a render that changed error, retryCount or
\* streamType; its cleanup has cleared the timer of the run before.  The
\* result: the state, whether a timer is pending, the failure history.
AutoRetryEffect(r, f) ==
    IF r.error # "none" /\ r.retryCount < MaxRetries
    THEN [state |-> r, timer |-> TRUE, failures |-> f]
    ELSE IF r.error # "none" /\ r.retryCount >= MaxRetries /\ r.streamType # "mjpeg"
    THEN [state |-> [r EXCEPT !.streamType = NextStreamType(r.streamType),
                              !.retryCount = 0,
                              !.error = "none"],
          timer |-> FALSE, failures |-> 0]
    ELSE [state |-> r, timer |-> FALSE, failures |-> f]

NCommit(r, f) ==
    LET e == AutoRetryEffect(r, f)
    IN /\ native' = e.state
       /\ nTimer' = e.timer
       /\ nFailures' = e.failures

\* The <Video> is rendered while error is null.
NVideoShown == nMounted /\ native.error = "none"

\* handleError: onError of the <Video>.
NHandleError ==
    /\ NVideoShown
    /\ NCommit([native EXCEPT !.error = "failed"], nFailures + 1)
    /\ UNCHANGED <<wvars, nMounted, others>>

\* handleLoad: onLoad of the <Video>.
NHandleLoad ==
    /\ NVideoShown
    /\ NCommit([native EXCEPT !.error = "none", !.retryCount = 0], 0)
    /\ UNCHANGED <<wvars, nMounted, others>>

\* The auto-retry timer fires.
NRetryTimer ==
    /\ nTimer
    /\ NCommit([native EXCEPT !.error = "none", !.retryCount = @ + 1], nFailures)
    /\ UNCHANGED <<wvars, nMounted, others>>

\* handleRetry: the Retry button, rendered while error is set.
NHandleRetry ==
    /\ nMounted /\ native.error # "none"
    /\ NCommit([native EXCEPT !.error = "none", !.retryCount = 0], 0)
    /\ UNCHANGED <<wvars, nMounted, others>>

NStreamTypes == {"ll-hls", "rtsp", "mjpeg"}

\* handleChangeStream(type): the stream type menu.
NHandleChangeStream ==
    /\ nMounted
    /\ \E type \in NStreamTypes :
          NCommit([native EXCEPT !.streamType = type, !.error = "none", !.retryCount = 0], 0)
    /\ UNCHANGED <<wvars, nMounted, others>>

\* handleTimeSelect(timestamp) of the native screen.
NHandleTimeSelect ==
    /\ nMounted
    /\ \E timestamp \in Stamps \cup {LIVE} :
          NCommit([native EXCEPT !.selectedTime = timestamp,
                                 !.playbackMode = IF timestamp = LIVE THEN "live" ELSE "timeline"],
                  nFailures)
    /\ UNCHANGED <<wvars, nMounted, others>>

\* The screen closes: the effect's cleanup clears the timer.
NUnmount ==
    /\ nMounted
    /\ nMounted' = FALSE
    /\ nTimer' = FALSE
    /\ UNCHANGED <<wvars, native, nFailures, others>>

NextNative ==
    \/ NHandleError
    \/ NHandleLoad
    \/ NRetryTimer
    \/ NHandleRetry
    \/ NHandleChangeStream
    \/ NHandleTimeSelect
    \/ NUnmount

\* The native screen alone: the other screen's inputs fixed.
InitNativeScreen == Init /\ ~isH265 /\ initialTimestamp = 0

SpecNative == InitNativeScreen /\ [][NextNative]_vars

\* ------------------------------------------------------ VerticalTimeline
zoomLevel == ZOOM_LEVELS[zoomIndex]
timeRangeMs == zoomLevel.minutes * 60 * 1000

\* generateTimeMarkers(): now, now - interval, ... down to now - timeRangeMs.
MarkerCount == zoomLevel.minutes \div zoomLevel.interval + 1
timeMarker(k) == tlNow - k * zoomLevel.interval * 60 * 1000
totalHeight == MarkerCount * zoomLevel.rowHeight + 80

\* handleScroll(): what it hands to onTimeSelect for contentOffset.y = scrollY.
\* The code's timestamp is a real number; its floor is kept, which
\* handleTimeSelect's floor(timestamp / 1000) does not tell from it.
handleScroll(scrollY) ==
    IF scrollY < 40
    THEN LIVE
    ELSE IF scrollY - 60 >= totalHeight - 80
    THEN tlNow - timeRangeMs
    ELSE tlNow + ((0 - (scrollY - 60) * timeRangeMs) \div (totalHeight - 80))

\* onScroll of the timeline's ScrollView.
Scroll ==
    /\ mounted /\ appState = "active"
    /\ \E scrollY \in ScrollYs : Commit(handleTimeSelect(World, handleScroll(scrollY), now))
    /\ UNCHANGED Session

\* The markers the user presses: the topmost ones.
MarkerPicks == {0, 1}

\* onPress of a time marker row.
MarkerPress ==
    /\ mounted /\ appState = "active"
    /\ \E k \in MarkerPicks :
          /\ k < MarkerCount
          /\ Commit(handleTimeSelect(World, timeMarker(k), now))
    /\ UNCHANGED Session

\* onPress of the LIVE row.
LivePress ==
    /\ mounted /\ appState = "active"
    /\ ui.selectedTime # LIVE
    /\ Commit(handleTimeSelect(World, LIVE, now))
    /\ UNCHANGED Session

\* handleZoomIn / handleZoomOut.
ZoomIn ==
    /\ mounted /\ zoomIndex > 1
    /\ zoomIndex' = zoomIndex - 1
    /\ UNCHANGED <<wvars, nvars, tlNow, fvars, rvars, pvars, avars, dvars>>

ZoomOut ==
    /\ mounted /\ zoomIndex < Len(ZOOM_LEVELS)
    /\ zoomIndex' = zoomIndex + 1
    /\ UNCHANGED <<wvars, nvars, tlNow, fvars, rvars, pvars, avars, dvars>>

\* The interval's setNow(Date.now()).
TimelineInterval ==
    /\ mounted /\ tlNow # now
    /\ tlNow' = now
    /\ UNCHANGED <<wvars, nvars, zoomIndex, fvars, rvars, pvars, avars, dvars>>

\* Time passes, a refresh period of the timeline at a time.
TimelineTick == Tick /\ now' = now + 10000

\* The timeline driving the playback modes of CameraLiveScreenWebRTC.
NextTimeline ==
    \/ Scroll
    \/ MarkerPress
    \/ LivePress
    \/ ZoomIn
    \/ ZoomOut
    \/ TimelineInterval
    \/ TimelineTick
    \/ RecordingEnd
    \/ Unmount

SpecTimeline == InitLive /\ [][NextTimeline]_vars

\* ------------------------------- FrigateWebSocketService: its operations
Min(a, b) == IF a <= b THEN a ELSE b

FreeSocketSlots(s) == {i \in FSockets : s.sockets[i].state = "free"}

\* A variant of scheduleReconnect whose delay does not grow with the attempts.
\* C15 must tell it from the code's.
scheduleReconnect_ConstantDelay(s) ==
    IF s.reconnectAttempts >= maxReconnectAttempts
    THEN s
    ELSE [s EXCEPT !.reconnectAttempts = @ + 1,
                   !.delay = Min(s.reconnectDelay, 30000),
                   !.orphanTimers = IF s.reconnectTimeout = "pending" THEN @ + 1 ELSE @,
                   !.reconnectTimeout = "pending"]

\* scheduleReconnect().  A timer already pending stays pending: its handle is
\* overwritten, not cleared.
scheduleReconnect(s) ==
    IF s.reconnectAttempts >= maxReconnectAttempts
    THEN s
    ELSE [s EXCEPT !.reconnectAttempts = @ + 1,
                   !.delay = Min(s.reconnectDelay * (s.reconnectAttempts + 1), 30000),
                   !.orphanTimers = IF s.reconnectTimeout = "pending" THEN @ + 1 ELSE @,
                   !.reconnectTimeout = "pending"]

\* isConnected(): this.ws?.readyState === WebSocket.OPEN.
isConnected(s) == s.ws # 0 /\ s.sockets[s.ws].state = "open"

\* connect(); throws: new WebSocket(wsUrl) throws.  The socket this.ws
\* referred to keeps its handlers.
connect(s, throws) ==
    IF isConnected(s)
    THEN s
    ELSE IF throws
    THEN scheduleReconnect(s)
    ELSE LET i == Lowest(FreeSocketSlots(s))
         IN [s EXCEPT !.sockets[i] = [state |-> "connecting", onclose |-> TRUE],
                      !.ws = i]

\* connect() can run: the bounds leave room for what it makes.
CanConnect(s, throws) ==
    \/ isConnected(s)
    \/ ~throws /\ FreeSocketSlots(s) # {}
    \/ /\ throws
       /\ fFailures < MaxFailures
       /\ (s.reconnectAttempts < maxReconnectAttempts /\ s.reconnectTimeout = "pending")
             => s.orphanTimers < MaxOrphanTimers

\* disconnect().
disconnect(s) ==
    [s EXCEPT !.reconnectTimeout = "null",
              !.sockets = [i \in FSockets |-> IF i = s.ws THEN FreeSocket ELSE @[i]],
              !.ws = 0]

\* notifyConnectionChange(connected): the dashboard's callback, while subscribed.
notifyConnectionChange(d, connected) ==
    IF d.subscribed
    THEN [d EXCEPT !.connection = IF connected THEN "connected" ELSE "disconnected"]
    ELSE d

\* A failure is counted when connect() throws without being connected.
Failed(s, throws) == IF throws /\ ~isConnected(s) THEN 1 ELSE 0

\* The dashboard's effect: connect() and the subscriptions.
DashboardSetup ==
    /\ ~dashboard.subscribed
    /\ \E throws \in BOOLEAN :
          /\ CanConnect(frigateWebSocket, throws)
          /\ frigateWebSocket' = connect(frigateWebSocket, throws)
          /\ fFailures' = fFailures + Failed(frigateWebSocket, throws)
    /\ dashboard' = [dashboard EXCEPT !.subscribed = TRUE]
    /\ fTornDown' = FALSE
    /\ UNCHANGED <<wvars, nvars, tvars, rvars, pvars, avars, dvars>>

\* The dashboard's focus effect: connect() if not connected.
DashboardFocus ==
    /\ ~isConnected(frigateWebSocket)
    /\ \E throws \in BOOLEAN :
          /\ CanConnect(frigateWebSocket, throws)
          /\ frigateWebSocket' = connect(frigateWebSocket, throws)
          /\ fFailures' = fFailures + Failed(frigateWebSocket, throws)
    /\ fTornDown' = FALSE
    /\ UNCHANGED <<wvars, nvars, tvars, dashboard, rvars, pvars, avars, dvars>>

\* The effect's cleanup: the subscriptions end, then disconnect().
DashboardCleanup ==
    /\ dashboard.subscribed
    /\ dashboard' = [dashboard EXCEPT !.subscribed = FALSE]
    /\ frigateWebSocket' = disconnect(frigateWebSocket)
    /\ fTornDown' = TRUE
    /\ UNCHANGED <<wvars, nvars, tvars, fFailures, rvars, pvars, avars, dvars>>

\* ws.onopen of a socket the service made.
FSocketOpen(i) ==
    /\ frigateWebSocket.sockets[i].state = "connecting"
    /\ frigateWebSocket' = [frigateWebSocket EXCEPT !.sockets[i].state = "open",
                                                    !.reconnectAttempts = 0,
                                                    !.reconnectDelay = 2000]
    /\ dashboard' = notifyConnectionChange(dashboard, TRUE)
    /\ fFailures' = 0
    /\ UNCHANGED <<wvars, nvars, tvars, fTornDown, rvars, pvars, avars, dvars>>

\* ws.onclose of a socket the service made: the socket failed to open, or it
\* was open and the connection is lost.
FSocketClose(i) ==
    /\ frigateWebSocket.sockets[i].state \in {"connecting", "open"}
    /\ frigateWebSocket.sockets[i].onclose
    /\ fFailures < MaxFailures
    /\ (frigateWebSocket.reconnectAttempts < maxReconnectAttempts
           /\ frigateWebSocket.reconnectTimeout = "pending")
          => frigateWebSocket.orphanTimers < MaxOrphanTimers
    /\ frigateWebSocket' =
          scheduleReconnect([frigateWebSocket EXCEPT
                                 !.sockets[i] = FreeSocket,
                                 !.ws = IF @ = i THEN 0 ELSE @])
    /\ dashboard' = notifyConnectionChange(dashboard, FALSE)
    /\ fFailures' = fFailures + 1
    /\ UNCHANGED <<wvars, nvars, tvars, fTornDown, rvars, pvars, avars, dvars>>

\* The timer this.reconnectTimeout refers to fires: connect().
FReconnectTimer ==
    /\ frigateWebSocket.reconnectTimeout = "pending"
    /\ LET s == [frigateWebSocket EXCEPT !.reconnectTimeout = "fired"]
       IN \E throws \in BOOLEAN :
             /\ CanConnect(s, throws)
             /\ frigateWebSocket' = connect(s, throws)
             /\ fFailures' = fFailures + Failed(s, throws)
    /\ UNCHANGED <<wvars, nvars, tvars, dashboard, fTornDown, rvars, pvars, avars, dvars>>

\* A timer whose handle was overwritten fires: connect().
FOrphanTimer ==
    /\ frigateWebSocket.orphanTimers > 0
    /\ LET s == [frigateWebSocket EXCEPT !.orphanTimers = @ - 1]
       IN \E throws \in BOOLEAN :
             /\ CanConnect(s, throws)
             /\ frigateWebSocket' = connect(s, throws)
             /\ fFailures' = fFailures + Failed(s, throws)
    /\ UNCHANGED <<wvars, nvars, tvars, dashboard, fTornDown, rvars, pvars, avars, dvars>>

NextSocket ==
    \/ DashboardSetup
    \/ DashboardFocus
    \/ DashboardCleanup
    \/ \E i \in FSockets : FSocketOpen(i)
    \/ \E i \in FSockets : FSocketClose(i)
    \/ FReconnectTimer
    \/ FOrphanTimer

\* The service and the dashboard alone: the screens' inputs fixed.
InitSocket == Init /\ ~isH265 /\ initialTimestamp = 0

SpecSocket == InitSocket /\ [][NextSocket]_vars

\* ------------------------------- MSEStreamService in detail: operations
\* WebSocket.close().
closeSocket(r) ==
    [r EXCEPT !.sock = IF @ \in {"connecting", "open"} THEN "closing" ELSE @,
              !.inflight = IF r.sock = "open" THEN TRUE
                           ELSE IF r.sock = "connecting" THEN FALSE ELSE @]

\* stop().
stop(r) ==
    LET r1 == IF r.webSocket THEN [closeSocket(r) EXCEPT !.webSocket = FALSE] ELSE r
    IN [r1 EXCEPT
          !.isRunning = FALSE,
          !.sockets = [c \in ClientIds |->
                          IF c \in r.clients /\ r.sockets[c].state = "connected"
                          THEN [r.sockets[c] EXCEPT !.state = "destroyed"]
                          ELSE r.sockets[c]],
          !.clients = {},
          !.server = IF r.httpServer /\ @ = "listening" THEN "closed" ELSE @,
          !.httpServer = FALSE,
          !.initSegment = NoSegment,
          !.mediaBuffer = <<>>]

\* startHttpServer(), up to the callback of listen().
startHttpServer(r) == [r EXCEPT !.st = "startHttpServer", !.server = "binding"]

\* connectWebSocket(), up to its first event.
connectWebSocket(r) ==
    [r EXCEPT !.st = "connectWebSocket", !.webSocket = TRUE, !.sock = "connecting",
              !.inflight = FALSE, !.resolved = FALSE, !.timeout = TRUE]

\* start() after connectWebSocket() resolved: onReady, return.
startReturns(r) == [r EXCEPT !.st = "ready", !.readys = @ + 1]

\* A variant of start()'s catch that rethrows without stop().  C26 must tell
\* it from the code's.
startCatch_NoStop(r) == [r EXCEPT !.st = "failed"]

\* start()'s catch: stop(), rethrow.
startCatch(r) == [stop(r) EXCEPT !.st = "failed"]

\* connectWebSocket() settles: the flag is set and the timer cleared.
Settle(r) == [r EXCEPT !.resolved = TRUE, !.timeout = FALSE]

\* sendChunkedData(socket, data): a write to a destroyed socket is lost.
sendChunkedData(r, c, data) ==
    IF r.sockets[c].state = "connected"
    THEN [r EXCEPT !.sockets[c].log = Append(@, data)]
    ELSE r

RECURSIVE sendChunks(_, _, _)
sendChunks(r, c, chunks) ==
    IF chunks = <<>> THEN r
    ELSE sendChunks(sendChunkedData(r, c, Head(chunks)), c, Tail(chunks))

\* serveStream(socket, clientId).
serveStream(r, c) ==
    LET r1 == sendChunkedData([r EXCEPT !.sockets[c].serves = @ + 1], c, HEADERS)
        r2 == [r1 EXCEPT !.clients = @ \cup {c}]
        r3 == IF r2.initSegment # NoSegment
              THEN sendChunkedData(r2, c, r2.initSegment)
              ELSE r2
    IN sendChunks(r3, c, r3.mediaBuffer)

\* serveStatus(socket), and the 404 branch: a response, then socket.destroy().
serveStatus(r, c) ==
    [sendChunkedData(r, c, RESPONSE) EXCEPT !.sockets[c].state = "destroyed"]

RECURSIVE broadcastTo(_, _, _)
broadcastTo(r, cs, data) ==
    IF cs = {} THEN r
    ELSE LET c == CHOOSE x \in cs : TRUE
         IN broadcastTo(sendChunkedData(r, c, data), cs \ {c}, data)

\* broadcastToClients(data).
broadcastToClients(r, data) == broadcastTo(r, r.clients, data)

\* The while loop of handleFMP4Data: shift() until the buffer fits.
\* A variant of the trim that drops the newest fragment.  C27 must tell it
\* from the code's.
Trim_DropNewest(buf) ==
    IF Len(buf) > maxBufferSize THEN SubSeq(buf, 1, maxBufferSize) ELSE buf

RECURSIVE Trim(_)
Trim(buf) == IF Len(buf) > maxBufferSize THEN Trim(Tail(buf)) ELSE buf

\* handleFMP4Data(data).
handleFMP4Data(r, data) ==
    IF IsInit(data)
    THEN broadcastToClients([r EXCEPT !.initSegment = data], data)
    ELSE broadcastToClients([r EXCEPT !.mediaBuffer = Trim(Append(@, data))], data)

\* ---------------------------------- MSEStreamService in detail: events
nonRelay == <<wvars, nvars, tvars, fvars, pvars, avars, dvars>>

\* The consumer calls start() on the service it has just created.
RStart ==
    /\ relay.st = "new"
    /\ relay' = startHttpServer(relay)
    /\ UNCHANGED nonRelay

\* The callback of listen(): the fields are set, startHttpServer() resolves
\* and start() goes on to connectWebSocket().
RListenOk ==
    /\ relay.st = "startHttpServer" /\ relay.server = "binding"
    /\ relay' = connectWebSocket([relay EXCEPT !.httpServer = TRUE, !.server = "listening",
                                               !.isRunning = TRUE])
    /\ UNCHANGED nonRelay

\* Every port of 9999..10010 fails: startHttpServer() rejects.
RListenFailed ==
    /\ relay.st = "startHttpServer" /\ relay.server = "binding"
    /\ relay' = startCatch([relay EXCEPT !.server = "closed"])
    /\ UNCHANGED nonRelay

\* onopen: the 'mse' request is sent.
RWsOpen ==
    /\ relay.sock = "connecting"
    /\ relay' = [relay EXCEPT !.sock = "open"]
    /\ UNCHANGED nonRelay

\* A message can be delivered to onmessage.
Deliverable(r) == r.sock = "open" \/ (r.sock = "closing" /\ r.inflight)

\* The 'mse' message: connectWebSocket() resolves if it is unsettled.
RWsMse ==
    /\ Deliverable(relay)
    /\ relay' = IF relay.resolved THEN relay ELSE startReturns(Settle(relay))
    /\ UNCHANGED nonRelay

\* onerror: connectWebSocket() rejects if it is unsettled.
RWsError ==
    /\ relay.sock \in {"connecting", "open"}
    /\ relay' = IF relay.resolved THEN relay ELSE startCatch(Settle(relay))
    /\ UNCHANGED nonRelay

\* onclose: connectWebSocket() rejects if it is unsettled.
RWsClose ==
    /\ relay.sock \in {"connecting", "open", "closing"}
    /\ LET r == [relay EXCEPT !.sock = "closed", !.inflight = FALSE]
       IN relay' = IF r.resolved THEN r ELSE startCatch(Settle(r))
    /\ UNCHANGED nonRelay

\* The 10 s timer of connectWebSocket().
RTimeout ==
    /\ relay.timeout
    /\ LET r == [relay EXCEPT !.timeout = FALSE]
       IN relay' = IF r.resolved THEN r ELSE startCatch(Settle(r))
    /\ UNCHANGED nonRelay

\* The consumer calls stop(): fallbackToHLS, the AppState listener, unmount.
RStop ==
    /\ relay.st # "new"
    /\ relay.stops < MaxStops
    /\ relay' = [stop(relay) EXCEPT !.stops = @ + 1]
    /\ UNCHANGED nonRelay

\* A binary message, the count-th at most.
Fragment(count) ==
    /\ Deliverable(relay)
    /\ relay.arrived < count
    /\ \E init \in BOOLEAN :
          /\ init => relay.inits < MaxInits
          /\ relay' = handleFMP4Data([relay EXCEPT !.arrived = @ + 1,
                                                   !.inits = IF init THEN @ + 1 ELSE @],
                                     <<relay.arrived + 1, init>>)
    /\ UNCHANGED nonRelay

RelayFragment == Fragment(MaxRelayFragments)

BufferFragment == Fragment(MaxBufferFragments)

\* handleHttpClient(socket): the server accepts a connection.
RClientConnect(c) ==
    /\ relay.server = "listening"
    /\ relay.sockets[c].state = "free"
    /\ \A d \in ClientIds : d < c => relay.sockets[d].state # "free"
    /\ relay' = [relay EXCEPT !.sockets[c].state = "connected"]
    /\ UNCHANGED nonRelay

RequestLines == {"stream", "status", "other"}

\* The socket's 'data' handler: requestData grows; once it holds the blank
\* line, every event dispatches on its first line.
RClientData(c) ==
    /\ relay.sockets[c].state = "connected"
    /\ \E line \in RequestLines, blank \in BOOLEAN :
          LET k == relay.sockets[c]
              requestLine == IF k.requestLine = "none" THEN line ELSE k.requestLine
              complete == k.complete \/ blank
              r == [relay EXCEPT !.sockets[c].requestLine = requestLine,
                                 !.sockets[c].complete = complete]
          IN /\ (complete /\ requestLine = "stream") => k.serves < MaxServes
             /\ relay' = IF ~complete THEN r
                         ELSE IF requestLine = "stream" THEN serveStream(r, c)
                         ELSE serveStatus(r, c)
    /\ UNCHANGED nonRelay

\* The socket's 'close' (or 'error'): clients.delete(clientId).
RClientClose(c) ==
    /\ relay.sockets[c].state \in {"connected", "destroyed"}
    /\ relay' = [relay EXCEPT !.sockets[c].state = "closed", !.clients = @ \ {c}]
    /\ UNCHANGED nonRelay

NextRelay ==
    \/ RStart
    \/ RListenOk
    \/ RListenFailed
    \/ RWsOpen
    \/ RWsMse
    \/ RWsError
    \/ RWsClose
    \/ RTimeout
    \/ RStop
    \/ RelayFragment
    \/ \E c \in ClientIds : RClientConnect(c)
    \/ \E c \in ClientIds : RClientData(c)
    \/ \E c \in ClientIds : RClientClose(c)

\* One service and its relay alone: the screens' inputs fixed.
InitRelayOnly == Init /\ ~isH265 /\ initialTimestamp = 0

SpecRelay == InitRelayOnly /\ [][NextRelay]_vars

\* The service that starts and receives, never stopped, no HTTP client.
NextBuffer ==
    \/ RStart
    \/ RListenOk
    \/ RWsOpen
    \/ RWsMse
    \/ BufferFragment

SpecBuffer == InitRelayOnly /\ [][NextBuffer]_vars

\* ------------------------------- WebRTCConnection in detail: operations
\* String.prototype.includes, on words.
includes(text, pattern) ==
    \E i \in 0..Len(text) :
        /\ i + Len(pattern) <= Len(text)
        /\ \A j \in 1..Len(pattern) : text[i + j] = pattern[j]

\* A variant of the 'error' case that tests for 'codecs not matched' only.
\* C23 must tell it from the code's.
errorCallback_PhraseOnly(errorMsg) ==
    IF includes(errorMsg, <<"codecs", "not", "matched">>) THEN "onCodecError" ELSE "onError"

\* handleWebSocketMessage, case 'error': the callback it calls.
errorCallback(errorMsg) ==
    IF includes(errorMsg, <<"codecs", "not", "matched">>) \/ includes(errorMsg, <<"H265">>)
    THEN "onCodecError"
    ELSE "onError"

\* The peer connection is open.
PcOpen(p, k) == p.pc[k] \in {"new", "connected", "failed"}

\* An event begins: what is remembered of the last one is replaced.
Event(p, cause) == [p EXCEPT !.cause = cause, !.text = <<>>, !.emitted = <<>>]

\* A callback of config is called.
Call(p, callback) == [p EXCEPT !.emitted = Append(@, callback)]

\* connect()'s catch, for its k-th call.
connectCatch(p, k) ==
    Call([p EXCEPT !.call[k] = "thrown", !.isConnecting = FALSE], "onError")

\* connect(), up to the await of openWebSocket(); k: the objects it makes.
peerConnect(p, k) ==
    IF p.isConnecting THEN p
    ELSE [p EXCEPT !.isConnecting = TRUE,
                   !.pc[k] = "new", !.peerConnection = k,
                   !.sock[k] = "connecting", !.webSocket = k,
                   !.timer[k] = TRUE,
                   !.call[k] = "openWebSocket"]

\* disconnect().
peerDisconnect(p) ==
    [p EXCEPT !.isConnecting = FALSE,
              !.sock = [k \in Attempts |-> IF k = p.webSocket THEN "closed" ELSE @[k]],
              !.webSocket = 0,
              !.pc = [k \in Attempts |-> IF k = p.peerConnection THEN "closed" ELSE @[k]],
              !.peerConnection = 0]

\* handleAnswer(sdp); ok: setRemoteDescription resolves.
handleAnswer(p, ok) ==
    IF p.peerConnection # 0 /\ ok
    THEN [p EXCEPT !.isConnecting = FALSE, !.remote = @ \cup {p.peerConnection}]
    ELSE Call(p, "onError")

\* The 'connectionstatechange' listener: it reads the state of
\* this.peerConnection, whichever object fired.
connectionStateListener(p) ==
    LET state == IF p.peerConnection = 0 THEN "unknown" ELSE p.pc[p.peerConnection]
    IN CASE state = "connected" -> [p EXCEPT !.isConnecting = FALSE]
         [] state \in {"failed", "closed"} -> Call(p, "onError")
         [] OTHER -> p

\* ---------------------------------- WebRTCConnection in detail: events
nonPeer == <<wvars, nvars, tvars, fvars, rvars, avars, dvars>>

FreeAttempts == {k \in Attempts : peer.call[k] = "none"}

\* The consumer calls connect().
PConnect ==
    /\ peer.isConnecting \/ FreeAttempts # {}
    /\ peer' = peerConnect(Event(peer, "connect"),
                           IF FreeAttempts = {} THEN 0 ELSE Lowest(FreeAttempts))
    /\ UNCHANGED nonPeer

\* The consumer calls disconnect().
PDisconnect ==
    /\ peer' = peerDisconnect(Event(peer, "disconnect"))
    /\ UNCHANGED nonPeer

\* onopen of socket k: openWebSocket() resolves if it is pending.
PSockOpen(k) ==
    /\ peer.sock[k] = "connecting"
    /\ peer' = [Event(peer, "open") EXCEPT
                   !.sock[k] = "open",
                   !.call[k] = IF @ = "openWebSocket" THEN "createOffer" ELSE @]
    /\ UNCHANGED nonPeer

\* onerror of socket k, which then closes: openWebSocket() rejects if pending.
PSockError(k) ==
    /\ peer.sock[k] \in {"connecting", "open"}
    /\ LET p == [Event(peer, "socketError") EXCEPT !.sock[k] = "closed"]
       IN peer' = IF p.call[k] = "openWebSocket" THEN connectCatch(p, k) ELSE p
    /\ UNCHANGED nonPeer

\* onclose of socket k: logged.
PSockClose(k) ==
    /\ peer.sock[k] = "open"
    /\ peer' = [Event(peer, "close") EXCEPT !.sock[k] = "closed"]
    /\ UNCHANGED nonPeer

\* The 10 s timer of the k-th openWebSocket(): it rejects if this.webSocket is
\* not an open socket.
PSockTimer(k) ==
    /\ peer.timer[k]
    /\ LET p == [Event(peer, "openTimeout") EXCEPT !.timer[k] = FALSE]
           notOpen == p.webSocket = 0 \/ p.sock[p.webSocket] # "open"
       IN peer' = IF notOpen /\ p.call[k] = "openWebSocket" THEN connectCatch(p, k) ELSE p
    /\ UNCHANGED nonPeer

\* createOffer and setLocalDescription of the k-th connect() settle, and the
\* offer is sent if this.webSocket is open.
POffer(k) ==
    /\ peer.call[k] = "createOffer"
    /\ \E ok \in BOOLEAN :
          LET p == Event(peer, "offer")
              sent == p.webSocket # 0 /\ p.sock[p.webSocket] = "open"
          IN peer' = IF p.peerConnection # 0 /\ PcOpen(p, p.peerConnection) /\ ok
                     THEN [p EXCEPT !.call[k] = "returned",
                                    !.offered = IF sent THEN @ \cup {p.webSocket} ELSE @]
                     ELSE connectCatch(p, k)
    /\ UNCHANGED nonPeer

\* 'webrtc/answer' on socket k.
PAnswer(k) ==
    /\ peer.sock[k] = "open" /\ k \in peer.offered
    /\ \E ok \in BOOLEAN : peer' = handleAnswer(Event(peer, "answer"), ok)
    /\ UNCHANGED nonPeer

\* An 'error' message on socket k.
PErrorMessage(k) ==
    /\ peer.sock[k] = "open"
    /\ \E errorMsg \in ErrorTexts :
          peer' = Call([Event(peer, "errorMessage") EXCEPT !.text = errorMsg],
                       errorCallback(errorMsg))
    /\ UNCHANGED nonPeer

\* 'track' with a stream on peer connection k.
PTrack(k) ==
    /\ PcOpen(peer, k) /\ k \in peer.remote
    /\ peer' = Call(Event(peer, "track"), "onRemoteStream")
    /\ UNCHANGED nonPeer

\* 'connectionstatechange' of peer connection k ("failed" stands for
\* disconnected too).
PPcState(k) ==
    /\ PcOpen(peer, k)
    /\ \E state \in {"connected", "failed"} :
          /\ state # peer.pc[k]
          /\ state = "connected" => k \in peer.remote
          /\ peer' = connectionStateListener([Event(peer, "connectionstatechange")
                                                 EXCEPT !.pc[k] = state])
    /\ UNCHANGED nonPeer

NextPeer ==
    \/ PConnect
    \/ PDisconnect
    \/ \E k \in Attempts : PSockOpen(k)
    \/ \E k \in Attempts : PSockError(k)
    \/ \E k \in Attempts : PSockClose(k)
    \/ \E k \in Attempts : PSockTimer(k)
    \/ \E k \in Attempts : POffer(k)
    \/ \E k \in Attempts : PAnswer(k)
    \/ \E k \in Attempts : PErrorMessage(k)
    \/ \E k \in Attempts : PTrack(k)
    \/ \E k \in Attempts : PPcState(k)

\* One connection alone: the screens' inputs fixed.
InitPeerOnly == Init /\ ~isH265 /\ initialTimestamp = 0

SpecPeer == InitPeerOnly /\ [][NextPeer]_vars

\* ------------------------------------------- FrigateApiService: login
\* url.replace(/\/$/, '').
stripSlash(url) ==
    IF Len(url) > 0 /\ url[Len(url)] = "/" THEN SubSeq(url, 1, Len(url) - 1) ELSE url

\* selectBestUrl(), up to its first await or its end.
selectBestUrl(a) ==
    LET a0 == [a EXCEPT !.both = a.localUrl # <<>> /\ a.remoteUrl # <<>>,
                        !.tested = <<>>, !.localReachable = "untested",
                        !.remoteReachable = "untested", !.outcome = "none"]
        url == IF a.localUrl # <<>> THEN a.localUrl
               ELSE IF a.remoteUrl # <<>> THEN a.remoteUrl ELSE a.baseUrl
    IN IF a0.both THEN [a0 EXCEPT !.pos = "testLocal"]
       ELSE IF url = <<>> THEN [a0 EXCEPT !.outcome = "error"]
       ELSE [a0 EXCEPT !.baseUrl = url, !.outcome = "selected", !.pos = "post"]

\* A variant that goes on to the remote URL whatever the local test gave.
\* C24 must tell it from the code's.
localTested_AlwaysRemote(a, reachable) ==
    [a EXCEPT !.tested = Append(@, "local"),
              !.localReachable = IF reachable THEN "yes" ELSE "no",
              !.pos = "testRemote"]

\* selectBestUrl() after testConnection(this.localUrl).
localTested(a, reachable) ==
    LET a1 == [a EXCEPT !.tested = Append(@, "local"),
                        !.localReachable = IF reachable THEN "yes" ELSE "no"]
    IN IF reachable
       THEN [a1 EXCEPT !.baseUrl = a.localUrl, !.outcome = "selected", !.pos = "post"]
       ELSE [a1 EXCEPT !.pos = "testRemote"]

\* selectBestUrl() after testConnection(this.remoteUrl).
remoteTested(a, reachable) ==
    LET a1 == [a EXCEPT !.tested = Append(@, "remote"),
                        !.remoteReachable = IF reachable THEN "yes" ELSE "no",
                        !.pos = "idle"]
    IN IF reachable
       THEN [a1 EXCEPT !.baseUrl = a.remoteUrl, !.outcome = "selected", !.pos = "post"]
       ELSE [a1 EXCEPT !.outcome = "error"]

nonApi == <<wvars, nvars, tvars, fvars, rvars, pvars, dvars>>

\* login(username, password, localUrl, remoteUrl), up to the selection.
ALogin ==
    /\ frigateApi.pos = "idle"
    /\ frigateApi.logins < MaxLogins
    /\ \E localUrl \in LocalArgs, remoteUrl \in RemoteArgs :
          frigateApi' = selectBestUrl(
              [frigateApi EXCEPT
                  !.logins = @ + 1,
                  !.localUrl = IF localUrl # <<>> THEN stripSlash(localUrl) ELSE @,
                  !.remoteUrl = IF remoteUrl # <<>> THEN stripSlash(remoteUrl) ELSE @])
    /\ UNCHANGED nonApi

\* testConnection(this.localUrl) settles: GET /api/version answered within 3 s
\* or not.
ALocalTest ==
    /\ frigateApi.pos = "testLocal"
    /\ \E reachable \in BOOLEAN : frigateApi' = localTested(frigateApi, reachable)
    /\ UNCHANGED nonApi

\* testConnection(this.remoteUrl) settles.
ARemoteTest ==
    /\ frigateApi.pos = "testRemote"
    /\ \E reachable \in BOOLEAN : frigateApi' = remoteTested(frigateApi, reachable)
    /\ UNCHANGED nonApi

\* POST /api/login settles: with a token, or login() throws.
APost ==
    /\ frigateApi.pos = "post"
    /\ \E token \in BOOLEAN :
          frigateApi' = [frigateApi EXCEPT !.pos = "idle",
                                           !.jwtToken = IF token THEN TRUE ELSE @]
    /\ UNCHANGED nonApi

NextLogin ==
    \/ ALogin
    \/ ALocalTest
    \/ ARemoteTest
    \/ APost

\* The URL selection alone: the screens' inputs fixed.
InitLoginOnly == Init /\ ~isH265 /\ initialTimestamp = 0

SpecLogin == InitLoginOnly /\ [][NextLogin]_vars

\* ------------------------------------- FrigateWebSocketService: detections
\* A variant of handleEventMessage that removes before it adds.  C29 must
\* tell it from the code's.
handleEventMessage_RemoveFirst(d, event) ==
    LET camera == event.camera
        d1 == IF camera \notin d.has
              THEN [d EXCEPT !.has = @ \cup {camera}, !.sets[camera] = {}]
              ELSE d
        isLiveDetection ==
            event.type = "new" \/ (event.active /\ ~event.stationary /\ ~event.ended)
        d2 == IF event.type = "end" \/ event.ended \/ (event.stationary /\ ~event.active)
              THEN [d1 EXCEPT !.sets[camera] = @ \ {event.id}]
              ELSE d1
        d3 == IF isLiveDetection
              THEN [d2 EXCEPT !.sets[camera] = @ \cup {event.id}]
              ELSE d2
    IN [d3 EXCEPT !.last = event]

\* handleEventMessage(event), event.after flattened; ended: !!after.end_time.
handleEventMessage(d, event) ==
    LET camera == event.camera
        d1 == IF camera \notin d.has
              THEN [d EXCEPT !.has = @ \cup {camera}, !.sets[camera] = {}]
              ELSE d
        isLiveDetection ==
            event.type = "new" \/ (event.active /\ ~event.stationary /\ ~event.ended)
        d2 == IF isLiveDetection
              THEN [d1 EXCEPT !.sets[camera] = @ \cup {event.id}]
              ELSE d1
        d3 == IF event.type = "end" \/ event.ended \/ (event.stationary /\ ~event.active)
              THEN [d2 EXCEPT !.sets[camera] = @ \ {event.id}]
              ELSE d2
    IN [d3 EXCEPT !.last = event]

\* hasActiveDetection(camera).
hasActiveDetection(d, camera) ==
    IF camera \in d.has THEN Cardinality(d.sets[camera]) > 0 ELSE FALSE

nonDetections == <<wvars, nvars, tvars, fvars, rvars, pvars, avars>>

\* ws.onmessage of an open socket with an 'events' message: handleMessage
\* parses it and calls handleEventMessage.
FSocketEvent(i) ==
    /\ frigateWebSocket.sockets[i].state = "open"
    /\ \E camera \in Cameras, id \in EventIds, type \in EventTypes,
          active \in BOOLEAN, stationary \in BOOLEAN, ended \in BOOLEAN :
          activeDetections' =
              handleEventMessage(activeDetections,
                                 [camera |-> camera, id |-> id, type |-> type,
                                  active |-> active, stationary |-> stationary,
                                  ended |-> ended])
    /\ UNCHANGED nonDetections

NextEvents ==
    \/ DashboardSetup
    \/ \E i \in FSockets : FSocketOpen(i)
    \/ \E i \in FSockets : FSocketEvent(i)

\* The service, its first connection and the messages on it: the screens'
\* inputs fixed.
InitEventsOnly == Init /\ ~isH265 /\ initialTimestamp = 0

SpecEvents == InitEventsOnly /\ [][NextEvents]_vars

\* ================================================================ claims
\* A WebRTCConnection that is connecting or connected: connect() is under way
\* or has sent its offer, and the peer connection is open.
ConnActive(c) == c.st \in {"openWebSocket", "createOffer", "offerSent"} /\ c.pc = "open"

\* An MSEStreamService that is starting or running: start() is waiting for the
\* relay to listen (stop() changes nothing of that), or the relay listens, or
\* the socket is connecting or open.
MseActive(m) ==
    \/ m.st = "startHttpServer"
    \/ m.st \in {"connectWebSocket", "ready"} /\ (m.httpServer \/ m.ws \in {"connecting", "open"})

ActiveDrivers ==
    Cardinality({i \in Conns : ConnActive(conns[i])})
        + Cardinality({i \in Mses : MseActive(mses[i])})

\* C1: in one CameraLiveScreenWebRTC session at most one live transport driver
\* (a WebRTCConnection or an MSEStreamService) is connecting or connected at a
\* time, whatever failures, fallbacks, manual retries and background/foreground
\* transitions happened.
C1_AtMostOneLiveDriver == ActiveDrivers <= 1

\* The fallback order of CameraLiveScreenWebRTC.
Rank(t) ==
    CASE t = "webrtc" -> 0
      [] t = "mse" -> 1
      [] t = "hls" -> 2

\* A step of an explicit restart: the retry button or the app coming to the
\* foreground.
ExplicitRestart == HandleRetry \/ AppActive

\* C2: the transport kind advances automatically only in the fixed order: a
\* step that is not an explicit restart and changes the kind moves it to the
\* next kind of the order, never to an earlier one and never past one.
C2_FixedOrder ==
    [][(ui.streamType' # ui.streamType /\ ~ExplicitRestart)
          => Rank(ui.streamType') = Rank(ui.streamType) + 1]_vars

\* The NextStreamType chain of CameraLiveScreenNative has run out: the last
\* kind has used its retries.
Exhausted ==
    /\ native.streamType = "mjpeg"
    /\ native.error # "none"
    /\ native.retryCount >= MaxRetries

\* C3: with no success in between, a kind is retried after its first and its
\* second failure, and on its third consecutive failure the session advances
\* to the next kind instead of retrying.
C3_AdvanceOnThirdFailure ==
    [][(NHandleError /\ native.streamType # "mjpeg")
          => IF nFailures + 1 < 3
             THEN native'.streamType = native.streamType /\ nTimer'
             ELSE native'.streamType = NextStreamType(native.streamType) /\ ~nTimer']_vars

\* The connection's onCodecError callback runs: an 'error' message that names
\* a codec mismatch arrives while the screen is mounted.
CodecMismatch ==
    /\ mounted
    /\ \E i \in Conns :
          /\ Answering(i)
          /\ FreeMseSlots(DisconnectCurrent(World)) # {}
          /\ Commit(handleErrorMessage(World, TRUE))
    /\ UNCHANGED Session

\* C4: when the WebRTC driver reports a codec mismatch the session is on MSE
\* after that same step: the current connection is disconnected, an
\* MSEStreamService is starting, no WebRTCConnection is made or connecting
\* anew, and no error is set.
C4_CodecMismatchGoesToMSE ==
    [][CodecMismatch
          => /\ ui'.streamType = "mse"
             /\ ui'.error = ui.error
             /\ mseStreamService' # 0
             /\ mses'[mseStreamService'].st = "startHttpServer"
             /\ webrtcConnection # 0 => ~ConnLive(conns'[webrtcConnection])
             /\ \A j \in Conns : conns'[j].st = "openWebSocket" => conns[j].st = "openWebSocket"]_vars

\* A camera that is not H265 is on MSE, its service starting: the codec
\* mismatch of its WebRTC connection brought it there.
C4_Witness ==
    /\ mounted /\ ~isH265
    /\ ui.streamType = "mse"
    /\ mseStreamService # 0
    /\ mses[mseStreamService].st = "startHttpServer"
    /\ \A j \in Conns : ~ConnLive(conns[j])

\* C5: for an H265 camera no WebRTCConnection is ever made: not by the mount,
\* not by a manual retry, not by the app coming to the foreground.
C5_NoPeerForH265 == isH265 => \A i \in Conns : conns[i].st = "free"

\* C6: once every kind has failed, an explicit retry starts again from the
\* first kind of the fallback order.
C6_RetryRestartsFromFirstKind ==
    [][(NHandleRetry /\ Exhausted) => native'.streamType = "ll-hls"]_vars

\* C7: a failure of a driver is recovered by retry or fallback and is not
\* shown as the error state: the error a WebRTCConnection reports is never the
\* screen's error.
C7_DriverFailureNotSurfaced == ui.error # "webrtc"

\* C8: work started before a mode switch does not change the state after it:
\* the delayed selection of the initial timestamp, arriving after the user has
\* selected a time, changes nothing.
C8_StaleSelectionDiscarded ==
    [][(InitialTimestampTimer /\ ui.selectedTime # LIVE) => ui' = ui]_vars

\* C9: after the screen has unmounted no socket, peer connection or relay
\* server of the session is open or opening.
C9_ReleasedAfterUnmount ==
    ~mounted => /\ \A i \in Conns : ~ConnLive(conns[i])
                /\ \A i \in Mses : ~MseLive(mses[i])

\* C10: when the recording segment ends, a gap (now - end, in seconds) of at
\* most 10 switches to live in that step; a larger gap loads the next segment
\* from the previous segment's end to now, the mode staying timeline.
C10_RecordingEnd ==
    [][RecordingEnd
          => LET nowSeconds == now \div 1000
             IN IF nowSeconds - ui.recordingEndTime <= 10
                THEN /\ ui'.playbackMode = "live"
                     /\ ui'.selectedTime = LIVE
                     /\ ui'.recordingUrl = NoRecording
                ELSE /\ ui'.playbackMode = "timeline"
                     /\ ui'.recordingUrl = getRecordingUrl(ui.recordingEndTime, nowSeconds)
                     /\ ui'.recordingEndTime = nowSeconds
                     /\ ui'.selectedTime = ui.selectedTime]_vars

\* A segment that starts where the one before it ended is loaded: the start
\* is no selected timestamp's second.
C10_Witness ==
    /\ mounted
    /\ ui.playbackMode = "timeline"
    /\ ui.recordingUrl # NoRecording
    /\ ui.recordingUrl[1] >= StartNow \div 1000
    /\ ui.recordingUrl[2] = ui.recordingEndTime
    /\ ui.recordingUrl[2] - ui.recordingUrl[1] > 10

\* C11: every recording segment the session requests has start < end <= now
\* when it is requested, whatever the timeline passes to handleTimeSelect.
C11_SegmentWithinPast ==
    ui.recordingUrl # NoRecording
        => /\ ui.recordingUrl[1] < ui.recordingUrl[2]
           /\ ui.recordingUrl[2] * 1000 <= now

\* C12: an error of the recording player switches the session back to live
\* and is not shown as an error: after the step the mode is live, no recording
\* is selected, and the error state is as it was.
C12_RecordingErrorFallsBackToLive ==
    [][RecordingError
          => /\ ui'.playbackMode = "live"
             /\ ui'.selectedTime = LIVE
             /\ ui'.recordingUrl = NoRecording
             /\ ui'.error = ui.error]_vars

\* C13: after the session returns from timeline mode to live, whatever
\* happened in between, live streaming goes on: a driver is connecting or
\* connected, or the HLS player is the transport, unless an error is shown.
C13_LiveResumes ==
    [][(/\ mounted /\ appState = "active" /\ codecCheck = "done"
        /\ ui.playbackMode = "timeline" /\ ui'.playbackMode = "live"
        /\ ui.error = "none" /\ ui'.error = "none")
          => (ui'.streamType = "hls" \/ ActiveDrivers' >= 1)]_vars

\* What the live transport consists of: the kind, the media handles, the
\* drivers and the refs to them.
LiveTransport ==
    <<ui.streamType, ui.remoteStream, ui.mseUrl, ui.hlsUrl,
      webrtcConnection, mseStreamService, conns, mses>>

\* C14: handleTimeSelect does not tear down the live driver: selecting a
\* timestamp or LIVE leaves the transport kind, the drivers, their connections
\* and the media handles as they were.
C14_TimeSelectKeepsDriver == [][TimeSelect => LiveTransport' = LiveTransport]_vars

\* The session plays a recording while its WebRTC connection is connected and
\* its stream is held.
C14_Witness ==
    /\ mounted
    /\ ui.playbackMode = "timeline"
    /\ ui.recordingUrl # NoRecording
    /\ ui.streamType = "webrtc" /\ ui.remoteStream
    /\ webrtcConnection # 0
    /\ ConnActive(conns[webrtcConnection])
    /\ conns[webrtcConnection].ws = "open"

\* scheduleReconnect() sets a timer in this step.
FScheduled == frigateWebSocket'.reconnectAttempts = frigateWebSocket.reconnectAttempts + 1

C16_ExhaustionSurfaced ==
    [][(/\ \E i \in FSockets : FSocketClose(i)
        /\ frigateWebSocket.reconnectAttempts >= maxReconnectAttempts
        /\ dashboard.subscribed)
          => /\ ~FScheduled
             /\ frigateWebSocket'.orphanTimers = frigateWebSocket.orphanTimers
             /\ dashboard'.connection = "exhausted"]_vars

\* C17: after disconnect(), until a consumer calls connect() again, no
\* reconnect timer is pending: none survives the teardown and no later close
\* of a socket sets one.
C17_NoRetryAfterTeardown ==
    fTornDown => /\ frigateWebSocket.reconnectTimeout # "pending"
                 /\ frigateWebSocket.orphanTimers = 0

\* An attempt of a WebRTCConnection that has emitted neither onRemoteStream
\* nor onError (nor onCodecError, which makes the screen disconnect it).
ConnAwaited(i) ==
    ConnActive(conns[i]) /\ webrtcConnection = i /\ ~ui.remoteStream /\ ui.error = "none"

\* An attempt of an MSEStreamService whose start() has neither returned
\* (onReady) nor thrown.
MseAwaited(i) == mses[i].st \in {"startHttpServer", "connectWebSocket"}

\* C18: every connect attempt of a driver ends: from connect() or start(), a
\* media-ready signal (onRemoteStream, onReady) or a failure signal (onError,
\* onCodecError, a rejected start()) follows, or the consumer closes the
\* attempt, whatever the server sends or fails to send.
C18_AttemptEnds ==
    /\ \A i \in Conns : ConnAwaited(i) ~> ~ConnAwaited(i)
    /\ \A i \in Mses : MseAwaited(i) ~> ~MseAwaited(i)

\* C19: a connection that succeeds hands its media handle to the consumer
\* once: a WebRTCConnection calls onRemoteStream at most once however many
\* tracks arrive and never when its connect() has thrown, and the MSE URL
\* reaches the screen only in the step in which start() returns.
C19_DeliveredOnce ==
    /\ [](\A i \in Conns : conns[i].streams <= 1)
    /\ [][\A i \in Conns : conns'[i].streams > conns[i].streams => conns[i].st # "failed"]_vars
    /\ [][(ui'.mseUrl /\ ~ui.mseUrl)
            => \E i \in Mses : mses[i].st = "connectWebSocket" /\ mses'[i].st = "ready"]_vars

\* C20: a driver whose connect() or start() has failed holds nothing it
\* acquired: no signaling socket connecting or open, no open peer connection,
\* no listening relay, whether or not the consumer calls disconnect() or stop().
C20_FailedDriverReleased ==
    /\ \A i \in Conns : conns[i].st = "failed" => ~ConnLive(conns[i])
    /\ \A i \in Mses : mses[i].st = "failed" => ~MseLive(mses[i])

\* Every value the fields of a WebRTCConnection can take.
ConnStates ==
    [st : {"free", "openWebSocket", "createOffer", "offerSent", "failed"},
     ws : {"null", "connecting", "open"},
     pc : {"null", "open"},
     isConnecting : BOOLEAN,
     streams : 0..MaxTracks]

\* The service holds nothing: no socket connecting or open, no server bound
\* or binding, no client, no buffered segment.
Released(r) ==
    /\ ~r.webSocket /\ r.sock \notin {"connecting", "open"}
    /\ ~r.httpServer /\ r.server \notin {"binding", "listening"}
    /\ r.clients = {}
    /\ r.initSegment = NoSegment /\ r.mediaBuffer = <<>>

\* C21: disconnect() and stop() are idempotent and release: in whatever state
\* the consumer calls stop(), the service is left released and a further
\* stop() changes nothing; disconnect() applied to any WebRTCConnection
\* leaves no socket and no peer connection, and applied again changes nothing.
C21_StopDisconnectIdempotent ==
    /\ [][RStop => Released(relay') /\ stop(relay') = relay']_vars
    /\ [](\A c \in ConnStates : /\ ~ConnLive(Disconnect(c))
                               /\ Disconnect(Disconnect(c)) = Disconnect(c))

\* C22: once the consumer has called stop(), the relay of that service is
\* gone for good: no server listens, no client is registered or connected,
\* and neither an init segment nor a media fragment is buffered, whatever
\* arrives afterwards.
C22_RelayTornDown ==
    relay.stops > 0 =>
        /\ ~relay.httpServer /\ relay.server # "listening"
        /\ relay.clients = {}
        /\ relay.initSegment = NoSegment /\ relay.mediaBuffer = <<>>

\* The text has the vocabulary of a codec negotiation failure.
CodecVocabulary(text) ==
    \/ \E i \in 1..Len(text) : text[i] = "H265"
    \/ \E i \in 1..Len(text) - 2 :
          text[i] = "codecs" /\ text[i + 1] = "not" /\ text[i + 2] = "matched"

C24_LocalFirst ==
    frigateApi.both =>
        /\ frigateApi.tested \in {<<>>, <<"local">>, <<"local", "remote">>}
        /\ frigateApi.localReachable = "yes" =>
              /\ frigateApi.outcome = "selected"
              /\ frigateApi.baseUrl = frigateApi.localUrl
              /\ frigateApi.tested = <<"local">>
        /\ (frigateApi.localReachable = "no" /\ frigateApi.remoteReachable = "yes") =>
              /\ frigateApi.outcome = "selected"
              /\ frigateApi.baseUrl = frigateApi.remoteUrl
        /\ (frigateApi.localReachable = "no" /\ frigateApi.remoteReachable = "no") =>
              frigateApi.outcome = "error"
        /\ frigateApi.outcome = "selected" =>
              \/ frigateApi.localReachable = "yes"
              \/ frigateApi.localReachable = "no" /\ frigateApi.remoteReachable = "yes"
        /\ frigateApi.outcome = "error" =>
              frigateApi.localReachable = "no" /\ frigateApi.remoteReachable = "no"

\* The local URL was unreachable and the remote one was selected, on a second
\* login.
C24_Witness ==
    /\ frigateApi.both /\ frigateApi.logins = 2
    /\ frigateApi.outcome = "selected"
    /\ frigateApi.localReachable = "no"
    /\ frigateApi.baseUrl = <<"remote">>

\* The sockets of the service that are connecting or open, and its reconnect
\* timers that have not fired.
LiveSockets == {i \in FSockets : frigateWebSocket.sockets[i].state \in {"connecting", "open"}}
PendingTimers ==
    (IF frigateWebSocket.reconnectTimeout = "pending" THEN 1 ELSE 0)
        + frigateWebSocket.orphanTimers

\* C25: at any time the FrigateWebSocketService has at most one socket
\* connecting or open and at most one reconnect timer pending.
C25_OneSocketOneTimer == Cardinality(LiveSockets) <= 1 /\ PendingTimers <= 1

\* C26: start() calls onReady, once, only in the step in which the 'mse'
\* message resolves connectWebSocket(), which start() calls only after the
\* relay's listen() succeeded; a start() that throws has called no onReady,
\* and when it throws stop() has run: nothing is held and isRunning is false.
C26_ReadyAfterRelayAndCodec ==
    /\ [][relay'.readys # relay.readys =>
             /\ RWsMse
             /\ relay.st = "connectWebSocket" /\ relay'.st = "ready"
             /\ relay.server \in {"listening", "closed"}
             /\ relay'.readys = 1]_vars
    /\ [](relay.st = "failed" => relay.readys = 0)
    /\ [][(relay'.st = "failed" /\ relay.st # "failed") =>
             Released(relay') /\ ~relay'.isRunning]_vars

\* start() threw after the relay listened: the timer, an error or a close
\* ended connectWebSocket(), and no consumer called stop().
C26_Witness ==
    /\ relay.st = "failed" /\ relay.stops = 0
    /\ relay.server = "closed" /\ relay.sock # "none"

\* C27: the media buffer never holds more than 50 fragments and never an
\* init fragment; a media fragment is appended at the end, and when the
\* buffer already holds 50 the oldest one, at the head, is dropped; an init
\* fragment replaces the one init segment and leaves the buffer as it was.
C27_BufferBoundedFifo ==
    /\ [](/\ Len(relay.mediaBuffer) <= maxBufferSize
          /\ \A i \in 1..Len(relay.mediaBuffer) : ~IsInit(relay.mediaBuffer[i])
          /\ relay.initSegment # NoSegment => IsInit(relay.initSegment))
    /\ [][BufferFragment =>
             LET init == relay'.inits # relay.inits
                 data == <<relay.arrived + 1, init>>
                 buf  == relay.mediaBuffer
             IN  IF init
                 THEN /\ relay'.initSegment = data
                      /\ relay'.mediaBuffer = buf
                 ELSE /\ relay'.initSegment = relay.initSegment
                      /\ relay'.mediaBuffer =
                            IF Len(buf) < maxBufferSize
                            THEN Append(buf, data)
                            ELSE Append(Tail(buf), data)]_vars

\* The buffer is full, a fragment has been dropped from it, and an init
\* segment is held.
C27_Witness ==
    /\ Len(relay.mediaBuffer) = maxBufferSize
    /\ relay.arrived - relay.inits > maxBufferSize
    /\ relay.mediaBuffer[1][1] > 1
    /\ relay.initSegment # NoSegment

\* A client with an open connection that has been served the stream.
Streaming(r, c) == r.sockets[c].state = "connected" /\ r.sockets[c].serves > 0

\* C28: what a client that requested the stream has received starts with the
\* response headers and holds nothing twice; the request is answered with the
\* headers, the init segment if there is one, and the buffered fragments in
\* their order, and nothing else; and every fragment that arrives while the
\* client is connected is appended, once, to what it has received.
C28_StreamInOrder ==
    /\ [](\A c \in ClientIds :
             relay.sockets[c].serves > 0 =>
                LET log == relay.sockets[c].log
                IN  /\ log # <<>> /\ log[1] = HEADERS
                    /\ \A i, j \in 1..Len(log) : i < j => log[i] # log[j])
    /\ [][\A c \in ClientIds :
             (RClientData(c) /\ relay'.sockets[c].serves # relay.sockets[c].serves) =>
                relay'.sockets[c].log =
                   <<HEADERS>>
                   \o (IF relay.initSegment # NoSegment
                       THEN <<relay.initSegment>> ELSE <<>>)
                   \o relay.mediaBuffer]_vars
    /\ [][RelayFragment =>
             \A c \in ClientIds :
                Streaming(relay, c) =>
                   relay'.sockets[c].log =
                      Append(relay.sockets[c].log,
                             <<relay.arrived + 1, relay'.inits # relay.inits>>)]_vars

\* C29: once an 'events' message of type 'end', or one with end_time set, has
\* been handled, its event id is not in its camera's set, whatever was
\* handled before; and hasActiveDetection(camera) is true exactly when some
\* event id is in the set the map holds for that camera.
C29_EndedNotTracked ==
    /\ LET e == activeDetections.last
       IN  (e.type = "end" \/ e.ended) => e.id \notin activeDetections.sets[e.camera]
    /\ \A c \in Cameras :
          hasActiveDetection(activeDetections, c)
             <=> \E id \in EventIds : c \in activeDetections.has /\ id \in activeDetections.sets[c]

\* An 'end' message of a moving object, which the handler adds and then
\* removes, while another event of that camera stays tracked.
C29_Witness ==
    LET e == activeDetections.last
    IN  /\ e.type = "end" /\ e.active /\ ~e.stationary /\ ~e.ended
        /\ activeDetections.sets[e.camera] # {}
        /\ hasActiveDetection(activeDetections, e.camera)

\* The peer connections and the signaling sockets of the instance that are
\* not closed.
OpenPeerConnections == {k \in Attempts : PcOpen(peer, k)}
OpenSockets == {k \in Attempts : peer.sock[k] \in {"connecting", "open"}}

\* What connect() would change of the instance.
Owned(p) == <<p.isConnecting, p.peerConnection, p.webSocket, p.call, p.pc, p.sock, p.timer>>

\* C30: the instance has at most one peer connection and at most one
\* signaling socket that is not closed; connect() while a connect is in
\* progress changes nothing; and connect() replaces this.peerConnection and
\* this.webSocket only if the objects they referred to are closed.
C30_SinglePeerAndSocket ==
    /\ [](Cardinality(OpenPeerConnections) <= 1 /\ Cardinality(OpenSockets) <= 1)
    /\ [][(PConnect /\ peer.isConnecting) => Owned(peer') = Owned(peer)]_vars
    /\ [][(PConnect /\ ~peer.isConnecting) =>
             /\ peer.peerConnection \notin OpenPeerConnections
             /\ peer.webSocket \notin OpenSockets]_vars
=============================================================================
